---------------------------- MODULE Spec2Model ----------------------------
(***************************************************************************)
(* Hostel allocation (script.js): the allocation state (rooms, requests),  *)
(* its persistence in localStorage['hostelState'], and the event handlers  *)
(* that read and mutate it.                                                *)
(*                                                                         *)
(* Three specifications:                                                   *)
(*   Spec     - the three state operations called with arbitrary arguments *)
(*              from the default seed state (submitRequest is the applyBtn *)
(*              handler run with the form and the selected room given).    *)
(*   SpecUI   - the same handlers, reachable only through the DOM the      *)
(*              render functions build (room tiles, Approve/Reject         *)
(*              buttons, admin login).                                     *)
(*   SpecLoad - page load (DOMContentLoaded -> loadState) from arbitrary   *)
(*              localStorage content, followed by the UI.                  *)
(*                                                                         *)
(* Abstractions: text fields are sequences of one-character strings; ids   *)
(* (Date.now().toString(36) + 4 random characters) are modelled by the     *)
(* timestamp alone, which advances between two submissions, so ids are     *)
(* pairwise distinct; the contents of the form fields are an input of the  *)
(* click on applyBtn; console logging, CSS classes, the login box and      *)
(* adminMsg are presentation only and left out.  renderRoomChoices' reset  *)
(* of a non-array state.rooms cannot run: loadState only returns states    *)
(* whose rooms are an array and no handler replaces the list.              *)
(***************************************************************************)
EXTENDS Integers, Sequences, FiniteSets, TLC

VARIABLES
    state,          \* let state = loadState(): [rooms, requests]
    stored,         \* localStorage item 'hostelState'
    selectedRoom,   \* let selectedRoom
    msg,            \* msg.textContent
    alerted,        \* text of the alert() shown by the last handler, "" if none
    threw,          \* the last handler ended in an uncaught TypeError
    selectable,     \* room tiles that carry a click handler (renderRoomChoices)
    buttons,        \* request ids that carry Approve/Reject buttons (renderRequests)
    adminPanel,     \* adminPanel.style.display
    now,            \* Date.now() at the last submission
    call,           \* the handler that ran last, with its room / id argument
    pc              \* "unloaded" before DOMContentLoaded, "ready" after

vars == <<state, stored, selectedRoom, msg, alerted, threw, selectable,
          buttons, adminPanel, now, call, pc>>

\* Largest number of requests ever held in state.requests.
MaxRequests == 2

\* Latest value of the clock: submissions stop once it is reached (only
\* SpecLoad, where a reload empties the request list, gets there).
MaxClock == MaxRequests + 1

Null == "null"

Max(a, b) == IF a >= b THEN a ELSE b

---------------------------------------------------------------------------
\* Data

defaultState ==
    [rooms |-> << [no |-> "101", capacity |-> 2, occupied |-> 0],
                  [no |-> "102", capacity |-> 2, occupied |-> 0],
                  [no |-> "103", capacity |-> 3, occupied |-> 0],
                  [no |-> "104", capacity |-> 3, occupied |-> 1],
                  [no |-> "105", capacity |-> 2, occupied |-> 2],
                  [no |-> "106", capacity |-> 3, occupied |-> 0],
                  [no |-> "107", capacity |-> 2, occupied |-> 0] >>,
     requests |-> << >>]

\* Messages written to msg.textContent and passed to alert().
MsgFillAll      == "Please fill all fields."
MsgRoommates    == "You must choose at least 1 roommate."
MsgChooseRoom   == "Please choose a room from the list."
MsgRoomNotFound == "Selected room not found."
MsgNoFreeSlot   == "Selected room no longer has a free slot."
MsgSubmitted    == "Application submitted. It will be visible in Admin panel for approval."
MsgCleared      == "Cleared."
AlertNoRoom     == "Room no longer exists"
AlertNoSlots    == "Not enough free slots to approve this request."

---------------------------------------------------------------------------
\* Persistence: localStorage holds text; JSON.stringify / JSON.parse convert
\* between the state object and that text.

NoItem      == [kind |-> "absent"]      \* getItem returns null
EmptyText   == [kind |-> "empty"]       \* the empty string
Unparseable == [kind |-> "garbage"]     \* text JSON.parse throws on
JSONText(v) == [kind |-> "json", value |-> v]

JNull        == [t |-> "null"]
JNumber(n)   == [t |-> "number", n |-> n]
JString(s)   == [t |-> "string", s |-> s]
JUndefined   == [t |-> "undefined"]
JArray(a)    == [t |-> "array", a |-> a]
JObject(rooms, requests) == [t |-> "object", rooms |-> rooms, requests |-> requests]

HasRequests(st) == "requests" \in DOMAIN st

JSONstringify(st) ==
    JSONText(JObject(JArray(st.rooms),
                     IF HasRequests(st) THEN JArray(st.requests) ELSE JUndefined))

\* !parsed : null, 0 and "" are falsy
Falsy(v) ==
    \/ v.t = "null"
    \/ v.t = "number" /\ v.n = 0
    \/ v.t = "string" /\ v.s = ""

\* parsed.rooms of a parsed value (undefined on a number or a string)
RoomsOf(v) == IF v.t = "object" THEN v.rooms ELSE JUndefined

\* The state object a parsed JSON object denotes.
ObjectOf(v) ==
    IF v.requests.t = "array"
    THEN [rooms |-> v.rooms.a, requests |-> v.requests.a]
    ELSE [rooms |-> v.rooms.a]

\* loadState's defensive test: the parsed value is replaced by the default
isMalformed(v) == Falsy(v) \/ RoomsOf(v).t # "array"

\* loadState(): the returned state and the storage content it leaves behind
loadState(s) ==
    IF s.kind \in {"absent", "empty"}
    THEN [state |-> defaultState, stored |-> JSONstringify(defaultState)]
    ELSE IF s.kind = "garbage"
    THEN [state |-> defaultState, stored |-> JSONstringify(defaultState)]
    ELSE IF isMalformed(s.value)
    THEN [state |-> defaultState, stored |-> JSONstringify(defaultState)]
    ELSE [state |-> ObjectOf(s.value), stored |-> s]

---------------------------------------------------------------------------
\* Helpers

\* Variant: the free slots taken to be the capacity, occupancy ignored.
getFreeSlotsCapacity(r) == Max(0, r.capacity)

getFreeSlots(r) == Max(0, r.capacity - r.occupied)

\* String.prototype.trim on a sequence of characters
RECURSIVE trimStart(_)
trimStart(s) == IF s # << >> /\ Head(s) = " " THEN trimStart(Tail(s)) ELSE s
RECURSIVE trimEnd(_)
trimEnd(s) ==
    IF s # << >> /\ s[Len(s)] = " " THEN trimEnd(SubSeq(s, 1, Len(s) - 1)) ELSE s
trim(s) == trimEnd(trimStart(s))

\* Number(val) on the select's value: a number or NaN
roommateCountFromSelect(val) ==
    CASE val = ""  -> [nan |-> FALSE, n |-> 0]
      [] val = "0" -> [nan |-> FALSE, n |-> 0]
      [] val = "1" -> [nan |-> FALSE, n |-> 1]
      [] val = "2" -> [nan |-> FALSE, n |-> 2]
      [] OTHER     -> [nan |-> TRUE,  n |-> 0]

\* Array.prototype.findIndex over requests by id; 0 stands for -1
findRequest(reqs, id) ==
    IF \E i \in 1..Len(reqs) : reqs[i].id = id
    THEN CHOOSE i \in 1..Len(reqs) :
            reqs[i].id = id /\ \A j \in 1..(i - 1) : reqs[j].id # id
    ELSE 0

\* Array.prototype.find over rooms by number; 0 stands for undefined
findRoom(rooms, no) ==
    IF \E i \in 1..Len(rooms) : rooms[i].no = no
    THEN CHOOSE i \in 1..Len(rooms) :
            rooms[i].no = no /\ \A j \in 1..(i - 1) : rooms[j].no # no
    ELSE 0

\* rq.occupantCount || 1
occupantsOf(rq) == IF rq.occupantCount = 0 THEN 1 ELSE rq.occupantCount

\* renderRoomChoices: the tiles that get a click handler
renderRoomChoices(st) ==
    { st.rooms[i].no : i \in { j \in 1..Len(st.rooms) : getFreeSlots(st.rooms[j]) >= 1 } }

\* Variant: buttons on every request, whatever its status.
renderRequestsAll(st) ==
    IF HasRequests(st)
    THEN { st.requests[i].id : i \in 1..Len(st.requests) }
    ELSE {}

\* renderRequests: the requests that get Approve/Reject buttons.  Without a
\* requests array the function throws right after clearing the list.
renderRequests(st) ==
    IF HasRequests(st)
    THEN { st.requests[i].id : i \in { j \in 1..Len(st.requests) : st.requests[j].status = "pending" } }
    ELSE {}


---------------------------------------------------------------------------
\* Inputs

Blank    == << " " >>
Padded   == << " ", "a" >>

\* Form contents at the moment applyBtn is clicked:
\* nameEl.value, enrollEl.value, contactEl.value, roommatesEl.value
ValidForm == [name |-> Padded, enroll |-> Padded, contact |-> Padded, roommates |-> "2"]

FormInputs ==
    { ValidForm,
      [name |-> Blank,  enroll |-> Padded, contact |-> Padded, roommates |-> "2"],
      [name |-> Padded, enroll |-> << >>,  contact |-> Padded, roommates |-> "2"],
      [name |-> Padded, enroll |-> Padded, contact |-> Blank,  roommates |-> "2"],
      [name |-> Padded, enroll |-> Padded, contact |-> Padded, roommates |-> "0"],
      [name |-> Padded, enroll |-> Padded, contact |-> Padded, roommates |-> "x"] }

\* Room numbers passed to submitRequest: two rooms with free slots, the full
\* seed room, a number no room has, and no selection.
RoomInputs == { "101", "104", "105", "999", Null }

\* Ids passed to approveRequest / rejectRequest: every id that can exist and
\* one that never does.
IdInputs == 1..(MaxRequests + 1)

Called(op, room, id) == [op |-> op, room |-> room, id |-> id]

---------------------------------------------------------------------------
\* applyBtn click handler

\* The handler's chain of early returns: the message it ends with.
applyCheck(st, form, sel) ==
    LET name      == trim(form.name)
        enroll    == trim(form.enroll)
        contact   == trim(form.contact)
        roommates == roommateCountFromSelect(form.roommates)
        occupantCount == 1
        r         == findRoom(st.rooms, sel)
    IN  IF name = << >> \/ enroll = << >> \/ contact = << >> THEN MsgFillAll
        ELSE IF roommates.nan \/ roommates.n < 1 THEN MsgRoommates
        ELSE IF sel = Null \/ sel = "" THEN MsgChooseRoom
        ELSE IF r = 0 THEN MsgRoomNotFound
        ELSE IF getFreeSlots(st.rooms[r]) < occupantCount THEN MsgNoFreeSlot
        ELSE MsgSubmitted

\* Variant: the request occupies as many slots as roommates were claimed.
pushRequestRoommates(st, form, sel, t) ==
    [st EXCEPT !.requests =
        Append(@, [id            |-> t,
                   name          |-> trim(form.name),
                   enroll        |-> trim(form.enroll),
                   contact       |-> trim(form.contact),
                   room          |-> sel,
                   roommateCount |-> roommateCountFromSelect(form.roommates).n,
                   occupantCount |-> roommateCountFromSelect(form.roommates).n,
                   status        |-> "pending",
                   appliedAt     |-> t])]

\* state.requests.push({...}) at time t
pushRequest(st, form, sel, t) ==
    [st EXCEPT !.requests =
        Append(@, [id            |-> t,
                   name          |-> trim(form.name),
                   enroll        |-> trim(form.enroll),
                   contact       |-> trim(form.contact),
                   room          |-> sel,
                   roommateCount |-> roommateCountFromSelect(form.roommates).n,
                   occupantCount |-> 1,
                   status        |-> "pending",
                   appliedAt     |-> t])]

\* The handler, run with selectedRoom = sel.
applyBtnClick(form, sel) ==
    /\ pc = "ready"
    /\ LET m == applyCheck(state, form, sel) IN
       IF m # MsgSubmitted
       THEN /\ msg' = m
            /\ selectedRoom' = sel
            /\ selectable' = IF m = MsgNoFreeSlot THEN renderRoomChoices(state)
                                                  ELSE selectable
            /\ threw' = FALSE
            /\ UNCHANGED <<state, stored, buttons, now>>
       ELSE IF ~HasRequests(state)
       THEN \* state.requests.push throws; msg was cleared on entry
            /\ msg' = ""
            /\ selectedRoom' = sel
            /\ threw' = TRUE
            /\ UNCHANGED <<state, stored, buttons, now, selectable>>
       ELSE /\ Len(state.requests) < MaxRequests
            /\ now < MaxClock
            /\ now' = now + 1
            /\ state' = pushRequest(state, form, sel, now')
            /\ stored' = JSONstringify(state')
            /\ msg' = MsgSubmitted
            /\ selectedRoom' = Null
            /\ buttons' = renderRequests(state')
            /\ selectable' = renderRoomChoices(state')
            /\ threw' = FALSE
    /\ alerted' = ""
    /\ call' = Called("apply", sel, 0)
    /\ UNCHANGED <<adminPanel, pc>>

---------------------------------------------------------------------------
\* approveRequest / rejectRequest

\* Variant: no capacity check at approval time.
approveCheckNoSlots(st, idx) ==
    IF findRoom(st.rooms, st.requests[idx].room) = 0 THEN AlertNoRoom ELSE ""

\* The alert approveRequest raises for request idx, "" if it goes through.
approveCheck(st, idx) ==
    LET rq == st.requests[idx]
        r  == findRoom(st.rooms, rq.room)
    IN  IF r = 0 THEN AlertNoRoom
        ELSE IF getFreeSlots(st.rooms[r]) < occupantsOf(rq) THEN AlertNoSlots
        ELSE ""

\* Variant: the status is set and the room's counter left alone.
approvedStatusOnly(st, idx) == [st EXCEPT !.requests[idx].status = "approved"]

\* room.occupied += (rq.occupantCount || 1); rq.status = 'approved'
approved(st, idx) ==
    LET rq == st.requests[idx]
        r  == findRoom(st.rooms, rq.room)
    IN  [st EXCEPT !.rooms[r].occupied = @ + occupantsOf(rq),
                   !.requests[idx].status = "approved"]

\* Variant: rejecting an approved request gives its slots back.
rejectedWithRelease(st, idx) ==
    LET rq == st.requests[idx]
        r  == findRoom(st.rooms, rq.room)
    IN  IF rq.status = "approved" /\ r # 0
        THEN [st EXCEPT !.rooms[r].occupied = @ - occupantsOf(rq),
                        !.requests[idx].status = "rejected"]
        ELSE [st EXCEPT !.requests[idx].status = "rejected"]

\* rq.status = 'rejected'
rejected(st, idx) == [st EXCEPT !.requests[idx].status = "rejected"]

approveRequest(id) ==
    /\ pc = "ready"
    /\ IF ~HasRequests(state)
       THEN /\ threw' = TRUE /\ alerted' = ""
            /\ UNCHANGED <<state, stored, buttons, selectable>>
       ELSE LET idx == findRequest(state.requests, id) IN
            IF idx = 0
            THEN /\ threw' = FALSE /\ alerted' = ""
                 /\ UNCHANGED <<state, stored, buttons, selectable>>
            ELSE IF approveCheck(state, idx) # ""
            THEN /\ threw' = FALSE /\ alerted' = approveCheck(state, idx)
                 /\ UNCHANGED <<state, stored, buttons, selectable>>
            ELSE /\ state' = approved(state, idx)
                 /\ stored' = JSONstringify(state')
                 /\ buttons' = renderRequests(state')
                 /\ selectable' = renderRoomChoices(state')
                 /\ threw' = FALSE /\ alerted' = ""
    /\ call' = Called("approve", Null, id)
    /\ UNCHANGED <<selectedRoom, msg, adminPanel, now, pc>>

rejectRequest(id) ==
    /\ pc = "ready"
    /\ IF ~HasRequests(state)
       THEN /\ threw' = TRUE
            /\ UNCHANGED <<state, stored, buttons>>
       ELSE LET idx == findRequest(state.requests, id) IN
            IF idx = 0
            THEN /\ threw' = FALSE
                 /\ UNCHANGED <<state, stored, buttons>>
            ELSE /\ state' = rejected(state, idx)
                 /\ stored' = JSONstringify(state')
                 /\ buttons' = renderRequests(state')
                 /\ threw' = FALSE
    /\ alerted' = ""
    /\ call' = Called("reject", Null, id)
    /\ UNCHANGED <<selectedRoom, msg, selectable, adminPanel, now, pc>>

---------------------------------------------------------------------------
\* Spec: the operations called with arbitrary arguments from the seed state.

\* submitRequest(name, enroll, contact, roomNumber, roommateCount)
submitRequest(form, roomNumber) == applyBtnClick(form, roomNumber)

Ready(st) ==
    /\ state = st
    /\ stored = JSONstringify(st)
    /\ selectedRoom = Null
    /\ msg = ""
    /\ alerted = ""
    /\ threw = FALSE
    /\ selectable = renderRoomChoices(st)
    /\ buttons = renderRequests(st)
    /\ adminPanel = ""
    /\ now = 0
    /\ call = Called("load", Null, 0)
    /\ pc = "ready"

Init == Ready(defaultState)

\* Argument lists: the valid form with every room input, and every form with
\* the full room (the field checks run before the room is looked at).
SubmitInputs == ({ValidForm} \X RoomInputs) \cup (FormInputs \X {"105"})

Submit  == \E in \in SubmitInputs : submitRequest(in[1], in[2])
Approve == \E id \in IdInputs : approveRequest(id)
Reject  == \E id \in IdInputs : rejectRequest(id)

Next == Submit \/ Approve \/ Reject

Spec == Init /\ [][Next]_vars

---------------------------------------------------------------------------
\* SpecUI: the handlers as the rendered page lets a user reach them.

\* click / Enter on a room tile that renderRoomChoices made selectable
tileClick(no) ==
    /\ pc = "ready"
    /\ no \in selectable
    /\ selectedRoom' = no
    /\ alerted' = "" /\ threw' = FALSE
    /\ call' = Called("select", no, 0)
    /\ UNCHANGED <<state, stored, msg, selectable, buttons, adminPanel, now, pc>>

applyBtnOnClick(form) == applyBtnClick(form, selectedRoom)

clearBtnClick ==
    /\ pc = "ready"
    /\ selectedRoom' = Null
    /\ msg' = MsgCleared
    /\ selectable' = renderRoomChoices(state)
    /\ alerted' = "" /\ threw' = FALSE
    /\ call' = Called("clear", Null, 0)
    /\ UNCHANGED <<state, stored, buttons, adminPanel, now, pc>>

roommatesChange ==
    /\ pc = "ready"
    /\ selectedRoom' = Null
    /\ selectable' = renderRoomChoices(state)
    /\ alerted' = "" /\ threw' = FALSE
    /\ call' = Called("roommates", Null, 0)
    /\ UNCHANGED <<state, stored, msg, buttons, adminPanel, now, pc>>

AdminUser == << "a", "d", "m", "i", "n" >>
AdminPass == "1234"

UserInputs == { AdminUser, << " " >> \o AdminUser, << "x" >> }
PassInputs == { AdminPass, "" }

adminLoginBtnClick(u, p) ==
    /\ pc = "ready"
    /\ IF trim(u) = AdminUser /\ p = AdminPass
       THEN /\ adminPanel' = "block"
            /\ buttons' = renderRequests(state)
            /\ threw' = ~HasRequests(state)
       ELSE /\ threw' = FALSE
            /\ UNCHANGED <<adminPanel, buttons>>
    /\ alerted' = ""
    /\ call' = Called("login", Null, 0)
    /\ UNCHANGED <<state, stored, selectedRoom, msg, selectable, now, pc>>

logoutAdminClick ==
    /\ pc = "ready"
    /\ adminPanel' = "none"
    /\ selectable' = renderRoomChoices(state)
    /\ alerted' = "" /\ threw' = FALSE
    /\ call' = Called("logout", Null, 0)
    /\ UNCHANGED <<state, stored, selectedRoom, msg, buttons, now, pc>>

\* app.onclick / rej.onclick of the buttons renderRequests created for rq.id
appOnclick(id) == id \in buttons /\ approveRequest(id)
rejOnclick(id) == id \in buttons /\ rejectRequest(id)

SelectUI  == \E no \in RoomInputs : tileClick(no)
ApplyUI   == \E form \in FormInputs : applyBtnOnClick(form)
LoginUI   == \E u \in UserInputs, p \in PassInputs : adminLoginBtnClick(u, p)
ApproveUI == \E id \in IdInputs : appOnclick(id)
RejectUI  == \E id \in IdInputs : rejOnclick(id)

NextUI ==
    \/ SelectUI
    \/ ApplyUI
    \/ clearBtnClick
    \/ roommatesChange
    \/ LoginUI
    \/ logoutAdminClick
    \/ ApproveUI
    \/ RejectUI

SpecUI == Init /\ [][NextUI]_vars

---------------------------------------------------------------------------
\* SpecLoad: page load from whatever localStorage holds.

PendingRequest ==
    [id |-> 1, name |-> << "a" >>, enroll |-> << "a" >>, contact |-> << "a" >>,
     room |-> "104", roommateCount |-> 2, occupantCount |-> 1,
     status |-> "pending", appliedAt |-> 1]

\* A state saved by an earlier session.
SavedState == [defaultState EXCEPT !.requests = << PendingRequest >>]

StoredInputs ==
    { NoItem,
      EmptyText,
      Unparseable,
      JSONText(JNull),
      JSONText(JNumber(5)),
      JSONText(JString("x")),
      JSONText(JObject(JString("not an array"), JArray(<< >>))),
      JSONText(JObject(JUndefined, JUndefined)),
      JSONText(JObject(JArray(<< >>), JUndefined)),
      JSONText(JObject(JArray(defaultState.rooms), JString("x"))),
      JSONstringify(defaultState),
      JSONstringify(SavedState) }

\* No state object exists before loadState has run.
Unloaded == [rooms |-> << >>]

\* The DOMContentLoaded listener: loadState, then the initial render.
DOMContentLoaded ==
    /\ pc = "unloaded"
    /\ state' = loadState(stored).state
    /\ stored' = loadState(stored).stored
    /\ selectedRoom' = Null
    /\ selectable' = renderRoomChoices(state')
    /\ buttons' = renderRequests(state')
    /\ threw' = ~HasRequests(state')
    /\ msg' = ""
    /\ alerted' = ""
    /\ adminPanel' = ""
    /\ call' = Called("load", Null, 0)
    /\ pc' = "ready"
    /\ UNCHANGED now

\* location.reload(): the page and its script state are torn down
locationReload ==
    /\ pc = "ready"
    /\ pc' = "unloaded"
    /\ state' = Unloaded
    /\ selectedRoom' = Null
    /\ selectable' = {} /\ buttons' = {}
    /\ msg' = "" /\ alerted' = "" /\ threw' = FALSE /\ adminPanel' = ""
    /\ call' = Called("reload", Null, 0)
    /\ UNCHANGED <<stored, now>>

\* window._resetHostelDemo
resetHostelDemo ==
    /\ pc = "ready"
    /\ stored' = NoItem
    /\ pc' = "unloaded"
    /\ state' = Unloaded
    /\ selectedRoom' = Null
    /\ selectable' = {} /\ buttons' = {}
    /\ msg' = "" /\ alerted' = "" /\ threw' = FALSE /\ adminPanel' = ""
    /\ call' = Called("reset", Null, 0)
    /\ UNCHANGED now

InitLoad ==
    /\ stored \in StoredInputs
    /\ state = Unloaded
    /\ selectedRoom = Null
    /\ msg = "" /\ alerted = "" /\ threw = FALSE
    /\ selectable = {} /\ buttons = {}
    /\ adminPanel = ""
    /\ now = 1
    /\ call = Called("none", Null, 0)
    /\ pc = "unloaded"

NextLoad ==
    \/ DOMContentLoaded
    \/ locationReload
    \/ resetHostelDemo
    \/ SelectUI
    \/ ApplyUI
    \/ ApproveUI
    \/ RejectUI

SpecLoad == InitLoad /\ [][NextLoad]_vars

---------------------------------------------------------------------------
\* Properties

\* Index of room number no in the seed list (every specification keeps the
\* seed's rooms in the seed's order once loaded from the seed).
Seed == defaultState.rooms

RoomIdx == 1..Len(state.rooms)
ReqIdx  == 1..Len(state.requests)

\* The fields pass validation as the specification words it: every text
\* field non-empty after trimming, roommateCount a number >= 1.
FieldsValid(form) ==
    /\ \E i \in 1..Len(form.name) : form.name[i] # " "
    /\ \E i \in 1..Len(form.enroll) : form.enroll[i] # " "
    /\ \E i \in 1..Len(form.contact) : form.contact[i] # " "
    /\ form.roommates \in {"1", "2"}

\* Room number no exists and has exactly k free slots (capacity - occupied).
FreeIs(no, k) ==
    \E i \in RoomIdx : state.rooms[i].no = no /\ state.rooms[i].capacity - state.rooms[i].occupied = k

HasFree(no) ==
    \E i \in RoomIdx : state.rooms[i].no = no /\ state.rooms[i].capacity - state.rooms[i].occupied >= 1

\* C1: from the seed state, after any sequence of submitRequest,
\* approveRequest and rejectRequest calls, every room has
\* 0 <= occupied <= capacity.
C1_OccupiedWithinCapacity ==
    \A i \in RoomIdx :
        /\ 0 <= state.rooms[i].occupied
        /\ state.rooms[i].occupied <= state.rooms[i].capacity

\* An approval has just been refused on a room that approvals filled up.
C1_Witness ==
    /\ call.op = "approve"
    /\ alerted = AlertNoSlots
    /\ \E i \in RoomIdx :
          /\ state.rooms[i].occupied = state.rooms[i].capacity
          /\ state.rooms[i].occupied > Seed[i].occupied

\* C2: a request's status changes only from pending to approved or from
\* pending to rejected; an approved or rejected request never changes again.
C2_StatusOnlyLeavesPending ==
    [][\A i \in ReqIdx :
          state'.requests[i].status # state.requests[i].status
              => /\ state.requests[i].status = "pending"
                 /\ state'.requests[i].status \in {"approved", "rejected"}]_vars

\* C3: approveRequest(id) on a request that is already approved fails and
\* does not raise the room's occupied counter again.
C3_SecondApproveRefused ==
    [][(/\ call'.op = "approve"
        /\ findRequest(state.requests, call'.id) # 0
        /\ state.requests[findRequest(state.requests, call'.id)].status = "approved")
          => /\ state'.rooms = state.rooms
             /\ alerted' # ""]_vars

\* C4 as claimed: submitRequest for a room with 0 free slots always fails
\* with RoomFull and leaves the state unchanged.
C4_FullRoomAlwaysRoomFull ==
    [][(call'.op = "apply" /\ FreeIs(call'.room, 0))
          => /\ msg' = MsgNoFreeSlot
             /\ state' = state]_vars

\* C4 as amended: submitRequest for a room with 0 free slots always fails and
\* leaves the state (and what is stored) unchanged; the failure is RoomFull
\* when the fields are valid and a field validation error otherwise.
C4_FullRoomRejected ==
    [][(call'.op = "apply" /\ FreeIs(call'.room, 0))
          => /\ state' = state
             /\ stored' = stored
             /\ msg' # MsgSubmitted
             /\ \A form \in FormInputs :
                   submitRequest(form, call'.room)
                       => /\ FieldsValid(form) => msg' = MsgNoFreeSlot
                          /\ ~FieldsValid(form) => msg' \in {MsgFillAll, MsgRoommates}]_vars

\* A valid submission for a room that approvals have filled was refused.
C4_Witness ==
    /\ call.op = "apply"
    /\ msg = MsgNoFreeSlot
    /\ FreeIs(call.room, 0)
    /\ call.room # "105"

\* C5: a successful submitRequest (valid fields, existing room with a free
\* slot) appends exactly one request, pending, with occupantCount 1 and a
\* fresh id, and leaves the earlier requests and every room unchanged.
C5_SubmitAppendsPending ==
    [][(call'.op = "apply" /\ HasFree(call'.room))
          => \A form \in FormInputs :
                (FieldsValid(form) /\ submitRequest(form, call'.room))
                    => /\ msg' = MsgSubmitted
                       /\ Len(state'.requests) = Len(state.requests) + 1
                       /\ SubSeq(state'.requests, 1, Len(state.requests)) = state.requests
                       /\ state'.requests[Len(state'.requests)].status = "pending"
                       /\ state'.requests[Len(state'.requests)].occupantCount = 1
                       /\ state'.requests[Len(state'.requests)].room = call'.room
                       /\ \A i \in ReqIdx :
                             state.requests[i].id # state'.requests[Len(state'.requests)].id
                       /\ state'.rooms = state.rooms]_vars

\* A submission went through while earlier requests, one of them approved,
\* were already held.
C5_Witness ==
    /\ call.op = "apply"
    /\ msg = MsgSubmitted
    /\ Len(state.requests) >= 2
    /\ state.requests[Len(state.requests)].status = "pending"
    /\ \E i \in ReqIdx : state.requests[i].status = "approved"

\* C6: approveRequest(id) on a pending request checks capacity again: with
\* free slots >= occupantCount the room's occupied grows by exactly
\* occupantCount and the request becomes approved; otherwise the call fails
\* with the not-enough-slots alert and nothing changes.
C6_ApproveRevalidates ==
    [][\A i \in ReqIdx :
          (/\ call'.op = "approve"
           /\ i = findRequest(state.requests, call'.id)
           /\ state.requests[i].status = "pending")
              => \E r \in RoomIdx :
                    /\ state.rooms[r].no = state.requests[i].room
                    /\ IF state.rooms[r].capacity - state.rooms[r].occupied
                             >= state.requests[i].occupantCount
                       THEN /\ state'.rooms[r].occupied =
                                  state.rooms[r].occupied + state.requests[i].occupantCount
                            /\ \A q \in RoomIdx \ {r} : state'.rooms[q] = state.rooms[q]
                            /\ state'.requests[i].status = "approved"
                            /\ \A j \in ReqIdx \ {i} : state'.requests[j] = state.requests[j]
                            /\ alerted' = ""
                       ELSE /\ state' = state
                            /\ alerted' = AlertNoSlots]_vars

\* A pending request was refused because approvals of other requests for
\* the same room used up its slots.
C6_Witness ==
    /\ call.op = "approve"
    /\ alerted = AlertNoSlots
    /\ \E i \in ReqIdx :
          /\ state.requests[i].id = call.id
          /\ state.requests[i].status = "pending"
          /\ \E j \in ReqIdx \ {i} :
                /\ state.requests[j].room = state.requests[i].room
                /\ state.requests[j].status = "approved"

\* C7: the room list changes only in a successful approveRequest, and only
\* by the occupied counter of the request's room growing by occupantCount;
\* no room is added or removed, no capacity changes, no occupied decreases.
C7_RoomsChangeOnlyByApproval ==
    [][/\ Len(state'.rooms) = Len(state.rooms)
       /\ \A r \in RoomIdx :
             /\ state'.rooms[r].no = state.rooms[r].no
             /\ state'.rooms[r].capacity = state.rooms[r].capacity
             /\ state'.rooms[r].occupied >= state.rooms[r].occupied
       /\ state'.rooms # state.rooms
             => /\ call'.op = "approve"
                /\ \E i \in ReqIdx :
                      /\ state.requests[i].id = call'.id
                      /\ \E r \in RoomIdx :
                            /\ state.rooms[r].no = state.requests[i].room
                            /\ state'.rooms =
                                 [state.rooms EXCEPT ![r].occupied =
                                     @ + state.requests[i].occupantCount]]_vars

\* An approved request was rejected and its room kept the slot taken.
C7_Witness ==
    /\ call.op = "reject"
    /\ \E i \in ReqIdx :
          /\ state.requests[i].id = call.id
          /\ state.requests[i].status = "rejected"
          /\ \E r \in RoomIdx :
                /\ state.rooms[r].no = state.requests[i].room
                /\ state.rooms[r].occupied > Seed[r].occupied
                /\ \A j \in ReqIdx : state.requests[j].room = state.rooms[r].no => j = i

\* Stored content that is malformed in the specification's sense:
\* unparseable, or not an object holding a rooms array and a requests array.
StructurallyValid(v) ==
    /\ v.t = "object"
    /\ v.rooms.t = "array"
    /\ v.requests.t = "array"

MalformedStored(s) ==
    \/ s.kind \in {"empty", "garbage"}
    \/ s.kind = "json" /\ ~StructurallyValid(s.value)

\* C8: loadState returns exactly the default seed state whenever nothing is
\* stored or the stored data is malformed (unparseable or structurally
\* invalid); it never returns the malformed data.
C8_MalformedLoadsDefault ==
    [][(/\ pc = "unloaded"
        /\ pc' = "ready"
        /\ (stored = NoItem \/ MalformedStored(stored)))
          => state' = defaultState]_vars

\* Sum of occupantCount over the approved requests for room number no.
RECURSIVE ApprovedSum(_, _)
ApprovedSum(reqs, no) ==
    IF reqs = << >> THEN 0
    ELSE (IF Head(reqs).room = no /\ Head(reqs).status = "approved"
          THEN Head(reqs).occupantCount ELSE 0)
         + ApprovedSum(Tail(reqs), no)

\* C9: in every state reachable from the seed, each room's occupied equals
\* its seed value plus the occupantCount of its currently approved requests.
C9_SlotAccounting ==
    \A r \in RoomIdx :
        state.rooms[r].occupied =
            Seed[r].occupied + ApprovedSum(state.requests, state.rooms[r].no)

\* C10: through the rendered buttons, approveRequest and rejectRequest run
\* only on a request that is pending at that moment, and the buttons on the
\* page are exactly those of the pending requests.
C10_ButtonsOnlyOnPending ==
    [][/\ call'.op \in {"approve", "reject"}
          => /\ findRequest(state.requests, call'.id) # 0
             /\ state.requests[findRequest(state.requests, call'.id)].status = "pending"
       /\ buttons' = { state'.requests[i].id :
                         i \in { j \in 1..Len(state'.requests) :
                                    state'.requests[j].status = "pending" } }]_vars

\* A button approved one request; it lost its buttons while another
\* request, still pending, keeps them.
C10_Witness ==
    /\ call.op = "approve"
    /\ \E i \in ReqIdx :
          /\ state.requests[i].id = call.id
          /\ state.requests[i].status = "approved"
          /\ call.id \notin buttons
    /\ \E j \in ReqIdx : state.requests[j].status = "pending" /\ state.requests[j].id \in buttons

=============================================================================
